---- MODULE Spec2Model ----
(***************************************************************************)
(* Model of src/main.go: the server-sent-events Broker.                    *)
(*                                                                         *)
(* Goroutines: Broker.listen (one), Broker.ServeHTTP (one per request),    *)
(* the context watcher each ServeHTTP spawns, and the event source in      *)
(* main.  newClients, closingClients and every msgChan are unbuffered, so  *)
(* a send on them is a rendezvous with the matching receive; Notifier has  *)
(* capacity NotifierCap.                                                   *)
(*                                                                         *)
(* A sink (msgChan) is identified with the number of the request that made *)
(* it.  Requests are numbered in the order in which they arrive.           *)
(***************************************************************************)
EXTENDS Integers, Sequences, FiniteSets

\* ---------------------------------------------------------------- bounds
MaxSessions == 2        \* requests served in one run
MaxEvents == 2          \* events the event source publishes in one run
MaxRequests == 4        \* Attach/Detach requests fed to the loop under CoreSpec
MaxIncidents == 2       \* what the clients and their transports do wrong in one run
MaxBurst == 4           \* events the event source publishes in one run under BurstSpec

\* capacity of Notifier: make(chan []byte, 1)
NotifierCap == 1

Sinks == 1..MaxSessions

VARIABLES
    Notifier,   \* broker.Notifier: buffered channel, sequence of events
    clients,    \* broker.clients: the keys of the map
    bpc,        \* listen: "select" (blocked in select) or "send" (blocked in clientMsgChan <- event)
    event,      \* listen: the event being fanned out (<<>> outside a fan-out)
    cur,        \* listen: the sink the range loop is sending to (0 outside a fan-out)
    todo,       \* listen: sinks the range loop has still to visit
    spc,        \* ServeHTTP of request s: "idle", "error", "attach", "recv", "write", "flush", "stalled"
    flusher,    \* whether rw of request s implements http.Flusher
    resp,       \* what ServeHTTP answered before streaming: "", "Streaming unsupported!", "text/event-stream"
    ctx,        \* req.Context() of request s is cancelled
    gpc,        \* the watcher goroutine of request s: "none", "wait" (in <-Done()), "detach" (in its send), "done"
    msg,        \* the value of <-msgChan that request s is writing
    out,        \* the calls of Fprintf on rw of request s that have returned, in order
    published,  \* events the event source has sent so far
    ppc,        \* the event source: "len" (before its log.Printf) or "send" (in its send on Notifier)
    subm,       \* history, kept under WindowSpec only: the registry at the moment the latest event was submitted
    hist,       \* history: the requests about sink s that listen has taken, in order
    fanout,     \* history: the events listen has taken, in order, each with the registry it met
    recvd,      \* history: the events request s has received on its msgChan
    flushed     \* history: the calls of flusher.Flush() of request s that have returned

bvars == <<Notifier, clients, bpc, event, cur, todo, subm, hist, fanout>>
svars == <<spc, flusher, resp, ctx, gpc, msg, out, flushed>>
vars == <<Notifier, clients, bpc, event, cur, todo, spc, flusher, resp, ctx,
          gpc, msg, out, published, ppc, subm, hist, fanout, recvd, flushed>>

\* ---------------------------------------------------------------- data
\* Whether the last request taken about a sink, of those in h, is its Detach.
Detached(h) == h # <<>> /\ h[Len(h)] = "detach"

\* Whether the last request taken about a sink, of those in h, is its Attach.
Attached(h) == h # <<>> /\ h[Len(h)] = "attach"

\* One entry of fanout: the event, the registry it was fanned out to, and the
\* sinks whose Detach had been taken by then.
Fan(e, m, g) == [ev |-> e, members |-> m, gone |-> g]

\* fmt.Sprintf("the time is %v", time.Now()): a text that differs from one
\* event to the next; the k-th event is "t" followed by the digit k.
Payload(k) == <<116, 48 + k>>

\* fmt.Fprintf(rw, "data: %s\n\n", m)
FrameOneNewline(m) == <<100, 97, 116, 97, 58, 32>> \o m \o <<10>>
Frame(m) == <<100, 97, 116, 97, 58, 32>> \o m \o <<10, 10>>

\* One call of Fprintf that has returned: the bytes it was given, and whether
\* it returned an error (nothing reached the client) or wrote them.
Call(b, e) == [bytes |-> b, err |-> e]

InsertAlone(m, s) == {s}
\* broker.clients[s] = true
Insert(m, s) == m \cup {s}

DeleteKeeps(m, s) == m
DeleteClears(m, s) == {}
\* delete(broker.clients, s)
Delete(m, s) == m \ {s}

RestKeeps(m, s) == m
\* for clientMsgChan := range broker.clients: each key is visited once
Rest(m, s) == m \ {s}

ReceivedFirst(h, e) == <<e>> \o h
\* <-msgChan: the next value of the channel
Received(h, e) == Append(h, e)

TakenKept(q) == q
\* event := <-broker.Notifier: the receive takes the event out of the channel
Taken(q) == Tail(q)

FlusherAssumed(f) == TRUE
\* flusher, ok := rw.(http.Flusher)
FlusherOk(f) == f

\* What has gone wrong so far at the clients 1..n: transports without
\* Flusher, cancelled requests, and transport calls that failed or have not
\* returned.
RECURSIVE Faults(_)
Faults(n) ==
    IF n = 0 THEN 0
    ELSE Len(SelectSeq(out[n], LAMBDA c : c.err))
         + (IF spc[n] = "stalled" THEN 1 ELSE 0)
         + (IF spc[n] = "error" THEN 1 ELSE 0)
         + (IF ctx[n] THEN 1 ELSE 0) + Faults(n - 1)
Incidents == Faults(MaxSessions)

\* ---------------------------------------------------------------- Init
Init ==
    /\ Notifier = <<>>
    /\ clients = {}
    /\ bpc = "select"
    /\ event = <<>>
    /\ cur = 0
    /\ todo = {}
    /\ spc = [s \in Sinks |-> "idle"]
    /\ flusher = [s \in Sinks |-> TRUE]
    /\ resp = [s \in Sinks |-> ""]
    /\ ctx = [s \in Sinks |-> FALSE]
    /\ gpc = [s \in Sinks |-> "none"]
    /\ msg = [s \in Sinks |-> <<>>]
    /\ out = [s \in Sinks |-> <<>>]
    /\ published = 0
    /\ ppc = "len"
    /\ subm = {}
    /\ hist = [s \in Sinks |-> <<>>]
    /\ fanout = <<>>
    /\ recvd = [s \in Sinks |-> <<>>]
    /\ flushed = [s \in Sinks |-> 0]

\* ---------------------------------------------------------------- listen
listenNewClientAnytime(s) ==
    /\ clients' = Insert(clients, s)
    /\ hist' = [hist EXCEPT ![s] = Append(@, "attach")]
    /\ UNCHANGED <<Notifier, bpc, event, cur, todo, subm, fanout>>

\* case s := <-broker.newClients
listenNewClient(s) ==
    /\ bpc = "select"
    /\ clients' = Insert(clients, s)
    /\ hist' = [hist EXCEPT ![s] = Append(@, "attach")]
    /\ UNCHANGED <<Notifier, bpc, event, cur, todo, subm, fanout>>

\* case s := <-broker.closingClients
listenClosingClient(s) ==
    /\ bpc = "select"
    /\ clients' = Delete(clients, s)
    /\ hist' = [hist EXCEPT ![s] = Append(@, "detach")]
    /\ UNCHANGED <<Notifier, bpc, event, cur, todo, subm, fanout>>

listenNotifierAtSubmission ==
    /\ bpc = "select"
    /\ Notifier # <<>>
    /\ Notifier' = Taken(Notifier)
    /\ fanout' = Append(fanout, Fan(Head(Notifier), clients,
                                    {s \in Sinks : Detached(hist[s])}))
    /\ IF subm = {}
         THEN UNCHANGED <<bpc, event, cur, todo>>
         ELSE /\ bpc' = "send"
              /\ event' = Head(Notifier)
              /\ \E c \in subm : cur' = c /\ todo' = Rest(subm, c)
    /\ UNCHANGED <<clients, subm, hist>>

\* case event := <-broker.Notifier, up to the first clientMsgChan <- event.
\* The order in which range visits the keys of a map is not specified.
listenNotifier ==
    /\ bpc = "select"
    /\ Notifier # <<>>
    /\ Notifier' = Taken(Notifier)
    /\ fanout' = Append(fanout, Fan(Head(Notifier), clients,
                                    {s \in Sinks : Detached(hist[s])}))
    /\ IF clients = {}
         THEN UNCHANGED <<bpc, event, cur, todo>>
         ELSE /\ bpc' = "send"
              /\ event' = Head(Notifier)
              /\ \E c \in clients : cur' = c /\ todo' = Rest(clients, c)
    /\ UNCHANGED <<clients, subm, hist>>

\* clientMsgChan <- event completes (s has received), and the range loop goes
\* on to its next key or, at its end, back to the select.
listenSent(s) ==
    /\ bpc = "send"
    /\ cur = s
    /\ IF todo = {}
         THEN bpc' = "select" /\ event' = <<>> /\ cur' = 0 /\ todo' = {}
         ELSE /\ \E c \in todo : cur' = c /\ todo' = Rest(todo, c)
              /\ UNCHANGED <<bpc, event>>
    /\ UNCHANGED <<Notifier, clients, subm, hist, fanout>>

\* ---------------------------------------------------------------- main
\* time.Sleep, fmt.Sprintf, and log.Printf(..., len(broker.clients)): the
\* event source reads the map of listen, with no synchronisation.  What it
\* reads only goes to the log and is not kept.
LogUpTo(n) ==
    /\ ppc = "len"
    /\ published < n
    /\ ppc' = "send"
    /\ UNCHANGED <<bvars, svars, published, recvd>>

Log == LogUpTo(MaxEvents)

\* broker.Notifier <- []byte(eventString); b is what subm becomes.
PublishWith(b) ==
    /\ ppc = "send"
    /\ Len(Notifier) < NotifierCap
    /\ Notifier' = Append(Notifier, Payload(published + 1))
    /\ published' = published + 1
    /\ ppc' = "len"
    /\ subm' = b
    /\ UNCHANGED <<clients, bpc, event, cur, todo, hist, fanout, svars, recvd>>

Publish == PublishWith(subm)

\* The select of listen takes the event at the head of Notifier.
Notify ==
    /\ listenNotifier
    /\ UNCHANGED <<svars, published, ppc, recvd>>

\* ---------------------------------------------------------------- ServeHTTP
StartWatcherFirst(s) ==
    /\ spc[s] = "idle"
    /\ \A t \in 1..(s - 1) : spc[t] # "idle"
    /\ \E f \in BOOLEAN :
        /\ f \/ Incidents < MaxIncidents
        /\ flusher' = [flusher EXCEPT ![s] = f]
        /\ IF FlusherOk(f)
             THEN /\ spc' = [spc EXCEPT ![s] = "attach"]
                  /\ resp' = [resp EXCEPT ![s] = "text/event-stream"]
                  /\ gpc' = [gpc EXCEPT ![s] = "wait"]
             ELSE /\ spc' = [spc EXCEPT ![s] = "error"]
                  /\ resp' = [resp EXCEPT ![s] = "Streaming unsupported!"]
                  /\ UNCHANGED gpc
    /\ UNCHANGED <<bvars, ctx, msg, out, published, ppc, flushed, recvd>>

\* A request arrives; the flusher check, http.Error or the headers.
Start(s) ==
    /\ spc[s] = "idle"
    /\ \A t \in 1..(s - 1) : spc[t] # "idle"
    /\ \E f \in BOOLEAN :
        /\ f \/ Incidents < MaxIncidents
        /\ flusher' = [flusher EXCEPT ![s] = f]
        /\ IF FlusherOk(f)
             THEN /\ spc' = [spc EXCEPT ![s] = "attach"]
                  /\ resp' = [resp EXCEPT ![s] = "text/event-stream"]
             ELSE /\ spc' = [spc EXCEPT ![s] = "error"]
                  /\ resp' = [resp EXCEPT ![s] = "Streaming unsupported!"]
    /\ UNCHANGED <<bvars, ctx, gpc, msg, out, published, ppc, flushed, recvd>>

AttachBuffered(s) ==
    /\ spc[s] = "attach"
    /\ spc' = [spc EXCEPT ![s] = "recv"]
    /\ gpc' = [gpc EXCEPT ![s] = "wait"]
    /\ UNCHANGED <<bvars, flusher, resp, ctx, msg, out, published, ppc, flushed, recvd>>

\* broker.newClients <- msgChan meets the select of listen; then the defer
\* is registered and the watcher goroutine is started.
Attach(s) ==
    /\ spc[s] = "attach"
    /\ listenNewClient(s)
    /\ spc' = [spc EXCEPT ![s] = "recv"]
    /\ gpc' = [gpc EXCEPT ![s] = "wait"]
    /\ UNCHANGED <<flusher, resp, ctx, msg, out, published, ppc, flushed, recvd>>

\* go func() { <-req.Context().Done(); ...: the client goes away, net/http
\* cancels the context of the request, and the watcher goroutine, which only
\* waits for that, goes on to its send.  Nothing else reads the context, so
\* a cancellation that comes before the watcher is started is taken here too.
Cancel(s) ==
    /\ gpc[s] = "wait"
    /\ spc[s] # "stalled"
    /\ Incidents < MaxIncidents
    /\ ctx' = [ctx EXCEPT ![s] = TRUE]
    /\ gpc' = [gpc EXCEPT ![s] = "detach"]
    /\ UNCHANGED <<bvars, spc, flusher, resp, msg, out, published, ppc, flushed, recvd>>

\* broker.closingClients <- msgChan of the watcher meets the select of listen.
Detach(s) ==
    /\ gpc[s] = "detach"
    /\ listenClosingClient(s)
    /\ gpc' = [gpc EXCEPT ![s] = "done"]
    /\ UNCHANGED <<spc, flusher, resp, ctx, msg, out, published, ppc, flushed, recvd>>

DeliverUnlessCancelled(s) ==
    /\ ~ctx[s]
    /\ spc[s] = "recv"
    /\ listenSent(s)
    /\ msg' = [msg EXCEPT ![s] = event]
    /\ recvd' = [recvd EXCEPT ![s] = Received(@, event)]
    /\ spc' = [spc EXCEPT ![s] = "write"]
    /\ UNCHANGED <<flusher, resp, ctx, gpc, out, published, ppc, flushed>>

\* <-msgChan in the for loop meets clientMsgChan <- event of listen.
Deliver(s) ==
    /\ spc[s] = "recv"
    /\ listenSent(s)
    /\ msg' = [msg EXCEPT ![s] = event]
    /\ recvd' = [recvd EXCEPT ![s] = Received(@, event)]
    /\ spc' = [spc EXCEPT ![s] = "write"]
    /\ UNCHANGED <<flusher, resp, ctx, gpc, out, published, ppc, flushed>>

\* fmt.Fprintf(rw, ...): the write succeeds, fails, or never returns.  The
\* error Fprintf returns is discarded and the loop goes on to Flush.
\* A call that never returns is one to a client that stays connected and
\* does not read: its request is not cancelled, before or after.
WriteReturns(s) ==
    /\ spc[s] = "write"
    /\ \/ out' = [out EXCEPT ![s] = Append(@, Call(Frame(msg[s]), FALSE))]
       \/ /\ Incidents < MaxIncidents
          /\ out' = [out EXCEPT ![s] = Append(@, Call(Frame(msg[s]), TRUE))]
    /\ spc' = [spc EXCEPT ![s] = "flush"]
    /\ UNCHANGED <<bvars, flusher, resp, ctx, gpc, msg, published, ppc, flushed, recvd>>

WriteStalls(s) ==
    /\ spc[s] = "write"
    /\ Incidents < MaxIncidents
    /\ ~ctx[s]
    /\ spc' = [spc EXCEPT ![s] = "stalled"]
    /\ UNCHANGED <<bvars, flusher, resp, ctx, gpc, msg, out, published, ppc, flushed, recvd>>

Write(s) == WriteReturns(s) \/ WriteStalls(s)

\* flusher.Flush() returns, or never does; then the loop receives again.
FlushReturns(s) ==
    /\ spc[s] = "flush"
    /\ spc' = [spc EXCEPT ![s] = "recv"]
    /\ flushed' = [flushed EXCEPT ![s] = @ + 1]
    /\ msg' = [msg EXCEPT ![s] = <<>>]
    /\ UNCHANGED <<bvars, flusher, resp, ctx, gpc, out, published, ppc, recvd>>

FlushStalls(s) ==
    /\ spc[s] = "flush"
    /\ Incidents < MaxIncidents
    /\ ~ctx[s]
    /\ spc' = [spc EXCEPT ![s] = "stalled"]
    /\ msg' = [msg EXCEPT ![s] = <<>>]
    /\ UNCHANGED <<bvars, flusher, resp, ctx, gpc, out, published, ppc, flushed, recvd>>

Flush(s) == FlushReturns(s) \/ FlushStalls(s)

\* The for loop of ServeHTTP has no break and no return, and nothing in it
\* panics: the handler never exits once attached, so the deferred
\* broker.closingClients <- msgChan (lines 67-69) is never run.

Next ==
    \/ Log
    \/ Publish
    \/ Notify
    \/ \E s \in Sinks : Start(s)
    \/ \E s \in Sinks : Attach(s)
    \/ \E s \in Sinks : Cancel(s)
    \/ \E s \in Sinks : Detach(s)
    \/ \E s \in Sinks : Deliver(s)
    \/ \E s \in Sinks : Write(s)
    \/ \E s \in Sinks : Flush(s)

Spec == Init /\ [][Next]_vars

\* Scheduling: the Go scheduler runs every runnable goroutine, and select
\* picks among its ready cases at random, so a case that is ready again and
\* again is taken.  Nothing obliges a client to connect or to go away, nor a
\* write that has stalled to return.
Fairness ==
    /\ SF_vars(Notify)
    /\ \A s \in Sinks :
        /\ SF_vars(Attach(s))
        /\ SF_vars(Detach(s))
        /\ WF_vars(Deliver(s))
        /\ WF_vars(Write(s))
        /\ WF_vars(Flush(s))

FairSpec == Init /\ [][Next]_vars /\ Fairness

\* ---------------------------------------------------------------- listen alone
\* The loop of listen fed with any sequence of requests: any sink on
\* newClients and on closingClients, attached or not, and receivers that
\* always take what they are sent.
RECURSIVE Total(_)
Total(n) == IF n = 0 THEN 0 ELSE Len(hist[n]) + Total(n - 1)
Requests == Total(MaxSessions)

CoreAttach(s) ==
    /\ Requests < MaxRequests
    /\ listenNewClient(s)
    /\ UNCHANGED <<svars, published, ppc, recvd>>

CoreDetach(s) ==
    /\ Requests < MaxRequests
    /\ listenClosingClient(s)
    /\ UNCHANGED <<svars, published, ppc, recvd>>

CoreDeliver(s) ==
    /\ listenSent(s)
    /\ recvd' = [recvd EXCEPT ![s] = Received(@, event)]
    /\ UNCHANGED <<svars, published, ppc>>

CoreNext ==
    \/ Log
    \/ Publish
    \/ Notify
    \/ \E s \in Sinks : CoreAttach(s)
    \/ \E s \in Sinks : CoreDetach(s)
    \/ \E s \in Sinks : CoreDeliver(s)

CoreSpec == Init /\ [][CoreNext]_vars

\* ---------------------------------------------------------------- properties
\* How many times e occurs in h.
Count(h, e) == Cardinality({i \in DOMAIN h : h[i] = e})

\* Whether the k-th fan-out is over: the loop took a later event, or is back
\* in its select.
FanDone(k) == k < Len(fanout) \/ bpc = "select"

\* Whether some call of Fprintf of request s has returned an error.
WriteFailed(s) == \E i \in DOMAIN out[s] : out[s][i].err

\* The sends on closingClients that request s has begun.  Only its watcher
\* goroutine ever reaches one.
DetachRequests(s) == IF gpc[s] \in {"detach", "done"} THEN 1 ELSE 0

\* C1: every event the loop takes while a sink is in the registry is sent to
\* that sink exactly once: never twice at any moment, not yet while the sink
\* is still to be visited by the range loop, and exactly once from the
\* moment the loop has passed it, so exactly once when the fan-out is over.
C1_ExactlyOnce ==
    \A k \in DOMAIN fanout : \A s \in fanout[k].members :
        Count(recvd[s], fanout[k].ev) =
            IF ~FanDone(k) /\ s \in todo \cup {cur} THEN 0 ELSE 1

\* C1 witness: two fan-outs are over, the first to two sinks.
C1_Witness ==
    /\ bpc = "select"
    /\ Len(fanout) = 2
    /\ Cardinality(fanout[1].members) >= 2
    /\ fanout[2].members # {}

\* C2: a client whose transport call never returns does not keep another
\* attached client from the events published afterwards: the loop is never
\* blocked in a send to a stalled session (which never receives again) while
\* another member, ready to receive, still waits for the event.
C2_StalledClientDoesNotBlock ==
    ~ \E s \in Sinks, t \in Sinks :
        /\ s # t
        /\ spc[s] = "stalled"
        /\ bpc = "send" /\ cur = s
        /\ t \in todo /\ spc[t] = "recv"

\* C3: once the loop has taken the Detach of a sink, nothing is sent to that
\* sink any more.
C3_NoDeliveryAfterDetach ==
    [][\A s \in Sinks : Detached(hist[s]) => recvd'[s] = recvd[s]]_vars

\* C3 witness: an event was taken after the Detach of a sink that had
\* received before, and its fan-out to the remaining members is over.
C3_Witness ==
    /\ bpc = "select"
    /\ \E k \in DOMAIN fanout : \E s \in fanout[k].gone :
        /\ recvd[s] # <<>>
        /\ fanout[k].members # {}

\* C4: a sink receives the events in the order in which the loop took them:
\* of two events a sink has received, the one received first was taken
\* first.
C4_DeliveryOrder ==
    \A s \in Sinks : \A p \in DOMAIN recvd[s], q \in DOMAIN recvd[s] :
        p < q => \E i \in DOMAIN fanout, j \in DOMAIN fanout :
                    /\ i < j
                    /\ fanout[i].ev = recvd[s][p]
                    /\ fanout[j].ev = recvd[s][q]

\* C4 witness: two sinks have each received two events.
C4_Witness ==
    \E s \in Sinks, t \in Sinks :
        s # t /\ Len(recvd[s]) >= 2 /\ Len(recvd[t]) >= 2

\* C5: the registry holds exactly the sinks whose Attach the loop has taken
\* with no Detach taken since.
C5_RegistryMatchesHistory ==
    clients = {s \in Sinks : Attached(hist[s])}

\* C5 witness: of two sinks attached, one has been detached while another
\* request was still waiting to attach or had attached.
C5_Witness ==
    \E s \in Sinks, t \in Sinks :
        /\ s # t
        /\ hist[s] = <<"attach", "detach">>
        /\ hist[t] = <<"attach">>
        /\ clients = {t}

\* C6: a session whose write has failed requests Detach exactly once: it is
\* not back in its receive without its Detach having been requested.
C6_DetachOnWriteFailure ==
    \A s \in Sinks :
        (WriteFailed(s) /\ spc[s] = "recv") => DetachRequests(s) = 1

\* C7: after a failed write a session receives no further event and calls
\* the transport no more.
C7_NoRetryAfterFailure ==
    [][\A s \in Sinks :
        WriteFailed(s) => (recvd'[s] = recvd[s] /\ out'[s] = out[s])]_vars

\* C8: if the context of an attached request is cancelled, its sink is
\* eventually removed from the registry.
C8_CancelledSinkRemoved ==
    \A s \in Sinks : (ctx[s] /\ s \in clients) ~> (s \notin clients)

\* C9: a Detach taken for a sink that is not attached (never attached, or
\* detached already) leaves the registry as it was, and the loop goes on.
C9_DetachIdempotent ==
    [][\A s \in Sinks :
        (hist'[s] = Append(hist[s], "detach") /\ ~Attached(hist[s]))
            => (clients' = clients /\ bpc' = "select")]_vars

\* C9 witness: with another sink in the registry, a Detach was taken for a
\* sink never attached, and then a second one for the same sink.
C9_Witness ==
    \E s \in Sinks, t \in Sinks :
        /\ s # t
        /\ hist[s] = <<"detach", "detach">>
        /\ hist[t] = <<"attach">>
        /\ clients = {t}

\* C10: a request whose transport has no Flusher is answered with the
\* "Streaming unsupported!" error and never touches the registry: it sends
\* no Attach and no Detach, and the loop takes no request about its sink.
C10_UnsupportedTransport ==
    \A s \in Sinks :
        (spc[s] # "idle" /\ ~flusher[s]) =>
            /\ spc[s] = "error"
            /\ resp[s] = "Streaming unsupported!"
            /\ gpc[s] = "none"
            /\ hist[s] = <<>>
            /\ s \notin clients

\* C10 witness: a request was refused while another sink was attached.
C10_Witness ==
    \E s \in Sinks, t \in Sinks :
        /\ ~flusher[s] /\ spc[s] = "error"
        /\ clients = {t}

\* ---------------------------------------------------------------- submission noted
\* The same program, with the registry noted at each submission of an event.
PublishNoted == PublishWith(clients)

WindowNext ==
    \/ Log
    \/ PublishNoted
    \/ Notify
    \/ \E s \in Sinks : Start(s)
    \/ \E s \in Sinks : Attach(s)
    \/ \E s \in Sinks : Cancel(s)
    \/ \E s \in Sinks : Detach(s)
    \/ \E s \in Sinks : Deliver(s)
    \/ \E s \in Sinks : Write(s)
    \/ \E s \in Sinks : Flush(s)

WindowSpec == Init /\ [][WindowNext]_vars

\* ---------------------------------------------------------------- one client
\* The program with a single request and a longer run of the event source.
LogBurst == LogUpTo(MaxBurst)

BurstNext ==
    \/ LogBurst
    \/ Publish
    \/ Notify
    \/ Start(1)
    \/ Attach(1)
    \/ Cancel(1)
    \/ Detach(1)
    \/ Deliver(1)
    \/ Write(1)
    \/ Flush(1)

BurstSpec == Init /\ [][BurstNext]_vars

\* The event source is at its read of len(broker.clients).
MainReadsMap == ppc = "len" /\ published < MaxEvents

\* listen is in its select with a request waiting on newClients or on
\* closingClients: its next insert into, or delete from, the map can happen
\* now.
LoopWritesMap ==
    /\ bpc = "select"
    /\ \E s \in Sinks : spc[s] = "attach" \/ gpc[s] = "detach"

\* C11: only listen touches the registry: no other goroutine is ever at a
\* read of the map at a moment when listen can insert into it or delete
\* from it, the two not being ordered by anything.
C11_RegistryPrivateToLoop == ~(MainReadsMap /\ LoopWritesMap)

\* C12: the loop is never suspended on a client: it is never blocked in its
\* send to a sink whose session is busy in a call of its transport.
C12_LoopNeverWaitsOnClient ==
    ~ \E s \in Sinks :
        /\ bpc = "send" /\ cur = s
        /\ spc[s] \in {"write", "flush", "stalled"}

\* C13: a client that does not consume never reaches the publisher: the
\* event source is never blocked in its send on a full Notifier while the
\* loop, the only receiver of Notifier, is blocked for ever in a send to a
\* stalled session.
C13_PublisherNeverBlocked ==
    ~ /\ ppc = "send"
      /\ Len(Notifier) = NotifierCap
      /\ bpc = "send"
      /\ \E s \in Sinks : cur = s /\ spc[s] = "stalled"

\* C14: an event goes to the registry as it is when the loop takes the event
\* from Notifier: once its fan-out is over, the sinks that have received it
\* are exactly the members at that moment, whatever the registry was when
\* the event was submitted.
C14_MembersAtProcessing ==
    \A k \in DOMAIN fanout :
        FanDone(k) =>
            {s \in Sinks : Count(recvd[s], fanout[k].ev) > 0} = fanout[k].members

\* C14 witness: the fan-out of the latest event is over; a sink that was not
\* in the registry when the event was submitted has received it, and a sink
\* that was in the registry then, and was detached before the loop took the
\* event, has not.
C14_Witness ==
    /\ bpc = "select"
    /\ Notifier = <<>>
    /\ fanout # <<>>
    /\ \E s \in fanout[Len(fanout)].members \ subm :
            Count(recvd[s], fanout[Len(fanout)].ev) = 1
    /\ \E s \in subm \cap fanout[Len(fanout)].gone :
            Count(recvd[s], fanout[Len(fanout)].ev) = 0

\* C15: nothing is replayed: a sink never receives an event the loop took
\* before the sink was attached, and no sink receives an event twice.
C15_NoReplay ==
    \A k \in DOMAIN fanout : \A s \in Sinks :
        /\ Count(recvd[s], fanout[k].ev) <= 1
        /\ (s \notin fanout[k].members /\ s \notin fanout[k].gone)
                => Count(recvd[s], fanout[k].ev) = 0

\* C15 witness: a sink attached after the first event has received the
\* second only, and a sink attached before has received each once.
C15_Witness ==
    \E s \in Sinks, t \in Sinks :
        /\ Len(fanout) = 2
        /\ s \notin fanout[1].members /\ s \notin fanout[1].gone
        /\ recvd[s] = <<fanout[2].ev>>
        /\ recvd[t] = <<fanout[1].ev, fanout[2].ev>>

\* C16: as the loop sees it a sink is unregistered, then attached, then
\* detached, and nothing else: its Detach is never taken before its Attach,
\* and it is never attached again.
C16_SinkLifecycle ==
    \A s \in Sinks :
        hist[s] \in {<<>>, <<"attach">>, <<"attach", "detach">>}

\* C16 witness: two sinks have gone through their whole life, and their
\* sessions are still running.
C16_Witness ==
    \E s \in Sinks, t \in Sinks :
        /\ s # t
        /\ hist[s] = <<"attach", "detach">> /\ gpc[s] = "done"
        /\ hist[t] = <<"attach", "detach">> /\ gpc[t] = "done"

\* C17: for each event a session receives it calls Fprintf once, with the
\* frame "data: " payload "\n\n", and Flush has returned before it receives
\* again; the frames are written in the order the events were received.
C17_OneFramePerEvent ==
    \A s \in Sinks :
        /\ Len(out[s]) <= Len(recvd[s])
        /\ Len(recvd[s]) <= Len(out[s]) + 1
        /\ flushed[s] <= Len(out[s])
        /\ \A i \in DOMAIN out[s] :
                out[s][i].bytes = <<100, 97, 116, 97, 58, 32>> \o recvd[s][i] \o <<10, 10>>
        /\ spc[s] = "recv" =>
                Len(out[s]) = Len(recvd[s]) /\ flushed[s] = Len(recvd[s])

\* C17 witness: a session has received two events, written the two frames
\* in that order, flushed twice, and is receiving again.
C17_Witness ==
    \E s \in Sinks :
        /\ spc[s] = "recv"
        /\ recvd[s] = <<Payload(1), Payload(2)>>
        /\ Len(out[s]) = 2 /\ ~out[s][1].err /\ ~out[s][2].err
        /\ out[s][1].bytes # out[s][2].bytes
        /\ flushed[s] = 2

\* C18: the loop handles one request at a time: while a fan-out is in
\* progress no Attach and no Detach is taken, so the registry stays as the
\* fan-out found it.
C18_OneRequestAtATime ==
    [][bpc = "send" => (clients' = clients /\ hist' = hist)]_vars

\* C18 witness: a fan-out is in progress while one session is waiting in
\* its send on newClients and a watcher in its send on closingClients.
C18_Witness ==
    /\ bpc = "send"
    /\ \E s \in Sinks : spc[s] = "attach"
    /\ \E s \in Sinks : gpc[s] = "detach" /\ s \in clients

\* ---------------------------------------------------------------- calls that return
\* The program with clients whose every Fprintf and Flush returns, with or
\* without an error.
ReturnNext ==
    \/ Log
    \/ Publish
    \/ Notify
    \/ \E s \in Sinks : Start(s)
    \/ \E s \in Sinks : Attach(s)
    \/ \E s \in Sinks : Cancel(s)
    \/ \E s \in Sinks : Detach(s)
    \/ \E s \in Sinks : Deliver(s)
    \/ \E s \in Sinks : WriteReturns(s)
    \/ \E s \in Sinks : FlushReturns(s)

\* Scheduling as in Fairness; the event source, once in its send, is a
\* runnable goroutine as soon as Notifier has room.
ReturnFairness ==
    /\ WF_vars(Publish)
    /\ SF_vars(Notify)
    /\ \A s \in Sinks :
        /\ SF_vars(Attach(s))
        /\ SF_vars(Detach(s))
        /\ WF_vars(Deliver(s))
        /\ WF_vars(WriteReturns(s))
        /\ WF_vars(FlushReturns(s))

ReturnSpec == Init /\ [][ReturnNext]_vars /\ ReturnFairness

\* C19: when every write and flush returns, nothing waits for ever: a send
\* of the loop to a sink completes, also when the request of that sink has
\* been cancelled; the loop comes back to its select; a session in its send
\* on newClients is attached, a watcher in its send on closingClients is
\* served, the event source gets out of its send on Notifier, and every
\* event sent on Notifier is taken by the loop.  Each of these waits is
\* over again and again.
C19_NoDeadlock ==
    /\ \A s \in Sinks : []<>~(bpc = "send" /\ cur = s)
    /\ []<>(bpc = "select")
    /\ \A s \in Sinks : []<>(spc[s] # "attach")
    /\ \A s \in Sinks : []<>(gpc[s] # "detach")
    /\ []<>(ppc # "send")
    /\ []<>(Notifier = <<>>)

\* C19 witness: the loop is in its send to a sink whose request has been
\* cancelled and whose session is still busy with the event before, while
\* the Detach of that sink is waiting.
C19_Witness ==
    \E s \in Sinks :
        /\ bpc = "send" /\ cur = s
        /\ ctx[s] /\ gpc[s] = "detach"
        /\ spc[s] \in {"write", "flush"}

\* C20: Attach is a rendezvous.  A session is past its send on newClients
\* only if the loop has taken its Attach; and a sink that was in the registry
\* when the latest event was submitted, and whose Detach the loop had not
\* taken when it took that event, is a member of its fan-out and holds the
\* event once the fan-out is over.
C20_AttachIsRendezvous ==
    /\ \A s \in Sinks :
            spc[s] \in {"recv", "write", "flush", "stalled"} => hist[s] # <<>>
    /\ (published >= 1 /\ Len(fanout) = published) =>
            \A s \in subm :
                s \notin fanout[published].gone =>
                    /\ s \in fanout[published].members
                    /\ FanDone(published) =>
                            Count(recvd[s], fanout[published].ev) = 1

\* C20 witness: a sink attached before the latest event was submitted has
\* received it, and its Detach has been taken only after that.
C20_Witness ==
    /\ published >= 1 /\ Len(fanout) = published
    /\ \E s \in subm :
        /\ s \in fanout[published].members
        /\ Count(recvd[s], fanout[published].ev) = 1
        /\ hist[s] = <<"attach", "detach">>

====
